---- MODULE Spec2Model ----
(***************************************************************************)
(* Model of the session driver of gowin_mcp_server.py: the GowinProcess    *)
(* object (process handle, output_buffer, prompt_ready), the read_output   *)
(* worker threads, the child processes with their stdout pipes, and one    *)
(* caller thread that runs start_gowin, stop_gowin and send_command one    *)
(* at a time (serialized callers).  Every step of the caller and of a      *)
(* worker that touches shared state is one action, so the interleavings    *)
(* of the Python threads are the behaviours of the model.                  *)
(***************************************************************************)
EXTENDS Integers, Sequences, FiniteSets, TLC

(* Bounds of the model. *)
MaxOut == 2      \* characters the children write to stdout, in total
MaxProcs == 2    \* children (and so workers) ever spawned
MaxLeft == 1     \* characters a child leaves unread in its pipe when it exits
MaxScan == 4     \* characters of the stream, when the scanner runs alone

NL == "\n"
Chars == {"%", " ", NL}               \* what a child may write
ReaderError == <<"!">>                \* the "[Reader error: ...]" chunk (line 68)
NoProc == 0                           \* gowin.process is None
Pids == 1..MaxProcs

VARIABLES
  process,        \* gowin.process: NoProc or the pid of the Popen object
  nproc,          \* children spawned so far
  alive,          \* pids whose process has not exited (poll() is None)
  pipe,           \* pid -> characters an exited child left unread in its stdout
  emitted,        \* characters written by all children so far
  stdin,          \* command lines written to the children in the current
                  \* operation: set of <<pid, cmd>>
  output_buffer,  \* gowin.output_buffer: sequence of chunks
  prompt_ready,   \* gowin.prompt_ready (threading.Event)
  wpc,            \* worker -> position in read_output
  wbuf,           \* worker -> its local buf
  wpid,           \* worker -> the Popen object whose stdout it is reading
  pc,             \* position of the caller thread
  op,             \* operation the caller is in: "none", "start", "stop", "send"
  wfp,            \* wait_for_prompt of the send_command in progress
  opFailed,       \* a step of the current operation raised
  ret,            \* what the operation that just finished returned
  lastSend,       \* what the send_command of this operation returned or raised
  stopLog,        \* requests and timeouts of the current stop_gowin, in order
  sinceDrain,     \* characters appended since the pre-send drain of the
                  \* send_command in progress
  atPrompt,       \* sinceDrain when prompt_ready went from unset to set
  pending,        \* characters appended and not yet returned by a get_output
  drainOk,        \* every get_output so far returned exactly `pending`
  old,            \* chunks at the head of output_buffer that were appended
                  \* before the latest successful Popen
  wmark,          \* worker -> when it read the marker it is about to signal
                  \* (between line 58 and line 60), relative to the
                  \* send_command in progress: "pre" before its pre-send drain,
                  \* "drained" between that drain and its write, "written"
                  \* after its write; "none" when it is not about to signal
  promptBy,       \* the wmark of the set() that took prompt_ready from unset
                  \* to set; "none" while prompt_ready is unset
  readFailed      \* pids on whose stdout a read(1) has raised

procVars == <<process, nproc, alive, pipe, emitted>>
bufVars == <<output_buffer, prompt_ready>>
workerVars == <<wpc, wbuf, wpid>>
callerVars == <<pc, op, wfp, opFailed, ret, lastSend, stopLog, stdin>>
markVars == <<wmark, promptBy, readFailed>>
histVars == <<sinceDrain, atPrompt, pending, drainOk, old, markVars>>
vars == <<procVars, bufVars, workerVars, callerVars, histVars>>

(***************************************************************************)
(* Pure helpers.                                                           *)
(***************************************************************************)
RECURSIVE Join(_)
\* "".join(chunks)
Join(chunks) ==
  IF chunks = <<>> THEN <<>> ELSE Head(chunks) \o Join(Tail(chunks))

\* buf.index("% "): position of the first "% " in buf, 0 when there is none
IndexOfMarker(buf) ==
  LET hits == {i \in 1..(Len(buf) - 1) : buf[i] = "%" /\ buf[i + 1] = " "}
  IN IF hits = {} THEN 0 ELSE CHOOSE i \in hits : \A j \in hits : i <= j

\* "% " in buf
HasMarker(buf) == IndexOfMarker(buf) # 0

\* GowinProcess.is_running
is_running == process # NoProc /\ process \in alive

NoRet == [op |-> "none", status |-> "none", adv |-> FALSE, failed |-> FALSE]
NoSend == [kind |-> "none", text |-> <<>>, wfp |-> FALSE, since |-> <<>>,
           upto |-> <<>>]

Init ==
  /\ process = NoProc
  /\ nproc = 0
  /\ alive = {}
  /\ pipe = [p \in Pids |-> <<>>]
  /\ emitted = 0
  /\ stdin = {}
  /\ output_buffer = <<>>
  /\ prompt_ready = FALSE
  /\ wpc = [w \in Pids |-> "none"]
  /\ wbuf = [w \in Pids |-> <<>>]
  /\ wpid = [w \in Pids |-> NoProc]
  /\ pc = "idle"
  /\ op = "none"
  /\ wfp = FALSE
  /\ opFailed = FALSE
  /\ ret = NoRet
  /\ lastSend = NoSend
  /\ stopLog = <<>>
  /\ sinceDrain = <<>>
  /\ atPrompt = <<>>
  /\ pending = <<>>
  /\ drainOk = TRUE
  /\ old = 0
  /\ wmark = [w \in Pids |-> "none"]
  /\ promptBy = "none"
  /\ readFailed = {}

(***************************************************************************)
(* The child processes.                                                    *)
(***************************************************************************)
\* What a live child writes is handed to the worker blocked in read(1) on its
\* stdout in the step that reads it (read_output_char); what it has written
\* and no worker has read when it exits stays in the pipe.
Leftovers == {<<>>} \cup {<<c>> : c \in Chars}

\* child p exits with `left` written to its stdout and not yet read
Exits(p, left) ==
  /\ Len(left) <= MaxLeft
  /\ emitted + Len(left) <= MaxOut
  /\ alive' = alive \ {p}
  /\ pipe' = [pipe EXCEPT ![p] = left]
  /\ emitted' = emitted + Len(left)

\* a live child exits of its own accord, on "exit" or on terminate()
ChildExit(p, left) ==
  /\ p \in alive
  /\ Exits(p, left)
  /\ UNCHANGED <<process, nproc>>
  /\ UNCHANGED <<bufVars, workerVars, callerVars, histVars>>

(***************************************************************************)
(* The output buffer.                                                      *)
(***************************************************************************)
\* with self.output_lock: self.output_buffer.append(chunk)
append_chunk(buffer, chunk) == Append(buffer, chunk)

\* GowinProcess.get_output: the string returned
get_output(buffer) == Join(buffer)

\* faulty variant of get_output_clear: the buffer is not cleared
get_output_clear_keep(buffer) == buffer

\* GowinProcess.get_output: the buffer left behind (output_buffer.clear())
get_output_clear(buffer) == <<>>

\* a send_command is between its pre-send drain and its return
Tracking == pc \in {"send_write", "send_wait", "send_tdrain", "send_final"}

\* where the send_command in progress stands when a marker is read
Phase == IF pc \in {"send_wait", "send_tdrain", "send_final"} THEN "written"
         ELSE IF pc = "send_write" THEN "drained"
         ELSE "pre"

\* a mark once the send_command it was relative to is over
Aged(m) == IF m = "none" THEN "none" ELSE "pre"

\* send_command is over: the marks left are those of an earlier command
EndSendMarks ==
  /\ wmark' = [w \in Pids |-> Aged(wmark[w])]
  /\ promptBy' = Aged(promptBy)
  /\ UNCHANGED readFailed

\* one append by a worker, with the histories that follow it
DoAppend(chunk) ==
  /\ output_buffer' = append_chunk(output_buffer, chunk)
  /\ sinceDrain' = IF Tracking THEN sinceDrain \o chunk ELSE sinceDrain
  /\ pending' = pending \o chunk
  /\ UNCHANGED old

(***************************************************************************)
(* read_output: the worker thread, one per successful Popen.               *)
(***************************************************************************)
\* faulty variant of ScanChar: a flushed line signals the prompt too
ScanChar_line_signals(buf, ch) ==
  LET b == Append(buf, ch)
      idx == IndexOfMarker(b) + 1
  IN IF ch = NL
       THEN [emit |-> b, rest |-> <<>>, prompt |-> TRUE]
     ELSE IF HasMarker(b)
       THEN [emit |-> SubSeq(b, 1, idx), rest |-> SubSeq(b, idx + 1, Len(b)),
             prompt |-> TRUE]
     ELSE [emit |-> <<>>, rest |-> b, prompt |-> FALSE]

\* faulty variant of ScanChar: the split is one character early, the chunk
\* ends before the blank of the marker
ScanChar_split_early(buf, ch) ==
  LET b == Append(buf, ch)
      idx == IndexOfMarker(b)
  IN IF ch = NL
       THEN [emit |-> b, rest |-> <<>>, prompt |-> FALSE]
     ELSE IF HasMarker(b)
       THEN [emit |-> SubSeq(b, 1, idx), rest |-> SubSeq(b, idx + 1, Len(b)),
             prompt |-> TRUE]
     ELSE [emit |-> <<>>, rest |-> b, prompt |-> FALSE]

\* lines 44-60: what the worker does with a character ch read into buf:
\* the chunk it appends (<<>> for none), the buf it keeps, whether it then
\* calls prompt_ready.set()
ScanChar(buf, ch) ==
  LET b == Append(buf, ch)
      idx == IndexOfMarker(b) + 1
  IN IF ch = NL
       THEN [emit |-> b, rest |-> <<>>, prompt |-> FALSE]
     ELSE IF HasMarker(b)
       THEN [emit |-> SubSeq(b, 1, idx), rest |-> SubSeq(b, idx + 1, Len(b)),
             prompt |-> TRUE]
     ELSE [emit |-> <<>>, rest |-> b, prompt |-> FALSE]

\* line 36, left operand: `self.process` is None or not
read_output_cond1(w) ==
  /\ wpc[w] = "cond"
  /\ wpc' = [wpc EXCEPT ![w] = IF process = NoProc THEN "leftover" ELSE "cond2"]
  /\ UNCHANGED <<wbuf, wpid, procVars, bufVars, callerVars, histVars>>

\* line 36, right operand: `self.process.poll() is None`, on a second load of
\* self.process, which raises AttributeError when it has become None
read_output_cond2(w) ==
  /\ wpc[w] = "cond2"
  /\ wpc' = [wpc EXCEPT ![w] = IF process = NoProc THEN "except"
                               ELSE IF process \in alive THEN "read"
                               ELSE "leftover"]
  /\ UNCHANGED <<wbuf, wpid, procVars, bufVars, callerVars, histVars>>

\* line 37: `self.process.stdout`, a third load of self.process
read_output_load(w) ==
  /\ wpc[w] = "read"
  /\ IF process = NoProc
       THEN /\ wpc' = [wpc EXCEPT ![w] = "except"]
            /\ UNCHANGED wpid
       ELSE /\ wpc' = [wpc EXCEPT ![w] = "block"]
            /\ wpid' = [wpid EXCEPT ![w] = process]
  /\ UNCHANGED <<wbuf, procVars, bufVars, callerVars, histVars>>

\* faulty variant of ReadChar: on a marker the worker goes to line 60 with
\* the chunk still in buf, so set() comes before the append
ReadChar_signal_first(w, ch) ==
  LET r == ScanChar(wbuf[w], ch)
  IN /\ wbuf' = [wbuf EXCEPT ![w] = IF r.prompt THEN r.emit \o r.rest
                                    ELSE r.rest]
     /\ wpc' = [wpc EXCEPT ![w] = IF r.prompt THEN "set" ELSE "cond"]
     /\ wpid' = [wpid EXCEPT ![w] = NoProc]
     /\ wmark' = [wmark EXCEPT ![w] = IF r.prompt THEN Phase ELSE "none"]
     /\ IF r.emit # <<>> /\ ~r.prompt
          THEN DoAppend(r.emit)
          ELSE UNCHANGED <<output_buffer, sinceDrain, pending, old>>

\* lines 44-59: the worker has read ch: it appends the chunk ch completes, if
\* any (buf is local, so reading and appending are one step)
ReadChar(w, ch) ==
  LET r == ScanChar(wbuf[w], ch)
  IN /\ wbuf' = [wbuf EXCEPT ![w] = r.rest]
     /\ wpc' = [wpc EXCEPT ![w] = IF r.prompt THEN "set" ELSE "cond"]
     /\ wpid' = [wpid EXCEPT ![w] = NoProc]
     /\ wmark' = [wmark EXCEPT ![w] = IF r.prompt THEN Phase ELSE "none"]
     /\ IF r.emit # <<>>
          THEN DoAppend(r.emit)
          ELSE UNCHANGED <<output_buffer, sinceDrain, pending, old>>

\* line 37: read(1) returns a character the live child writes
read_output_char(w, ch) ==
  /\ wpc[w] = "block"
  /\ wpid[w] \in alive
  /\ emitted < MaxOut
  /\ emitted' = emitted + 1
  /\ ReadChar(w, ch)
  /\ UNCHANGED <<process, nproc, alive, pipe>>
  /\ UNCHANGED <<prompt_ready, callerVars, atPrompt, drainOk>>
  /\ UNCHANGED <<promptBy, readFailed>>

\* line 37: read(1) returns a character the exited child left in the pipe
read_output_rest(w) ==
  /\ wpc[w] = "block"
  /\ wpid[w] \notin alive
  /\ pipe[wpid[w]] # <<>>
  /\ pipe' = [pipe EXCEPT ![wpid[w]] = Tail(@)]
  /\ ReadChar(w, Head(pipe[wpid[w]]))
  /\ UNCHANGED <<process, nproc, alive, emitted, stdin>>
  /\ UNCHANGED <<prompt_ready, callerVars, atPrompt, drainOk>>
  /\ UNCHANGED <<promptBy, readFailed>>

\* line 60: self.prompt_ready.set()
read_output_set(w) ==
  /\ wpc[w] = "set"
  /\ prompt_ready' = TRUE
  /\ atPrompt' = IF prompt_ready THEN atPrompt ELSE sinceDrain
  /\ promptBy' = IF prompt_ready THEN promptBy ELSE wmark[w]
  /\ wmark' = [wmark EXCEPT ![w] = "none"]
  /\ wpc' = [wpc EXCEPT ![w] = "cond"]
  /\ UNCHANGED <<wbuf, wpid, procVars, output_buffer, callerVars>>
  /\ UNCHANGED <<sinceDrain, pending, drainOk, old, readFailed>>

\* lines 38-43: read(1) returns "" (the pipe is empty and its writer is
\* gone): flush buf and break; buf is then empty at line 63
read_output_eof(w) ==
  /\ wpc[w] = "block"
  /\ pipe[wpid[w]] = <<>>
  /\ wpid[w] \notin alive
  /\ IF wbuf[w] # <<>>
       THEN DoAppend(wbuf[w])
       ELSE UNCHANGED <<output_buffer, sinceDrain, pending, old>>
  /\ wbuf' = [wbuf EXCEPT ![w] = <<>>]
  /\ wpid' = [wpid EXCEPT ![w] = NoProc]
  /\ wpc' = [wpc EXCEPT ![w] = "done"]
  /\ UNCHANGED <<procVars, prompt_ready, callerVars>>
  /\ UNCHANGED <<atPrompt, drainOk, markVars>>

\* line 37: read(1) raises (an I/O or decoding error)
read_output_fail(w) ==
  /\ wpc[w] = "block"
  /\ wpc' = [wpc EXCEPT ![w] = "except"]
  /\ wpid' = [wpid EXCEPT ![w] = NoProc]
  /\ readFailed' = readFailed \cup {wpid[w]}
  /\ UNCHANGED <<wbuf, procVars, bufVars, callerVars>>
  /\ UNCHANGED <<sinceDrain, atPrompt, pending, drainOk, old, wmark, promptBy>>

\* lines 62-65: the loop condition was false
read_output_leftover(w) ==
  /\ wpc[w] = "leftover"
  /\ IF wbuf[w] # <<>>
       THEN DoAppend(wbuf[w])
       ELSE UNCHANGED <<output_buffer, sinceDrain, pending, old>>
  /\ wpc' = [wpc EXCEPT ![w] = "done"]
  /\ wbuf' = [wbuf EXCEPT ![w] = <<>>]
  /\ UNCHANGED <<wpid, procVars, prompt_ready, callerVars>>
  /\ UNCHANGED <<atPrompt, drainOk, markVars>>

\* lines 66-68: except Exception: append the diagnostic chunk
read_output_except(w) ==
  /\ wpc[w] = "except"
  /\ DoAppend(ReaderError)
  /\ wpc' = [wpc EXCEPT ![w] = "done"]
  /\ wbuf' = [wbuf EXCEPT ![w] = <<>>]
  /\ UNCHANGED <<wpid, procVars, prompt_ready, callerVars>>
  /\ UNCHANGED <<atPrompt, drainOk, markVars>>

(***************************************************************************)
(* The caller thread.                                                      *)
(***************************************************************************)
\* the command line each operation hands to send_command
Cmd(o) == IF o = "stop" THEN "exit"
          ELSE IF o = "start" THEN "set tcl_interactive 1"
          ELSE "cmd"

\* one get_output() by the caller, with the history that follows it
DoDrain ==
  /\ output_buffer' = get_output_clear(output_buffer)
  /\ drainOk' = (drainOk /\ get_output(output_buffer) = pending)
  /\ pending' = <<>>
  /\ old' = 0

\* an operation begins: the records of the previous one are forgotten
Fresh ==
  /\ opFailed' = FALSE
  /\ lastSend' = NoSend
  /\ stopLog' = <<>>
  /\ stdin' = {}

\* an operation returns `status` to its caller
Returns(o, status, adv, failed) ==
  /\ pc' = "idle"
  /\ op' = "none"
  /\ wfp' = FALSE
  /\ ret' = [op |-> o, status |-> status, adv |-> adv, failed |-> failed]

\* where a send_command that raises leaves its caller: a tool built on it
\* lets the error out (lines 222-332), start_gowin reports it (line 160),
\* stop_gowin goes to its except clause (line 185)
SendRaises(kind) ==
  /\ lastSend' = [kind |-> kind, text |-> <<>>, wfp |-> wfp, since |-> <<>>,
                   upto |-> <<>>]
  /\ opFailed' = TRUE
  /\ IF op = "stop"
       THEN /\ pc' = "stop_except"
            /\ UNCHANGED <<op, wfp, ret>>
       ELSE Returns(op, IF op = "start" THEN "started_error" ELSE kind,
                    FALSE, TRUE)

\* where a send_command that returns text leaves its caller: a tool built on
\* it returns the text, start_gowin wraps it (line 158), stop_gowin drops it
SendReturns(kind, text, adv) ==
  /\ lastSend' = [kind |-> kind, text |-> text, wfp |-> wfp,
                   since |-> sinceDrain, upto |-> atPrompt]
  /\ UNCHANGED opFailed
  /\ IF op = "stop"
       THEN /\ pc' = "stop_wait1"
            /\ UNCHANGED <<op, wfp, ret>>
       ELSE Returns(op, IF op = "start" THEN "started" ELSE "ok", adv, opFailed)

\* lines 222-332: a tool calls gowin.send_command(cmd)
tool_send ==
  /\ pc = "idle"
  /\ pc' = "send_check"
  /\ op' = "send"
  /\ wfp' = TRUE
  /\ ret' = NoRet
  /\ Fresh
  /\ UNCHANGED <<procVars, bufVars, workerVars, histVars>>

\* faulty variant of send_command_not_running: the check comes after
\* prompt_ready.clear()
send_command_not_running_late ==
  /\ pc = "send_check"
  /\ ~is_running
  /\ prompt_ready' = FALSE
  /\ promptBy' = "none"
  /\ SendRaises("not_running")
  /\ UNCHANGED <<stopLog, stdin>>
  /\ UNCHANGED <<procVars, output_buffer, workerVars>>
  /\ UNCHANGED <<sinceDrain, atPrompt, pending, drainOk, old, wmark, readFailed>>

\* lines 79-80: raise "not running"
send_command_not_running ==
  /\ pc = "send_check"
  /\ ~is_running
  /\ SendRaises("not_running")
  /\ UNCHANGED <<stopLog, stdin>>
  /\ UNCHANGED <<procVars, bufVars, workerVars, histVars>>

\* line 79: the process is running
send_command_running ==
  /\ pc = "send_check"
  /\ is_running
  /\ pc' = "send_clear"
  /\ UNCHANGED <<op, wfp, opFailed, ret, lastSend, stopLog, stdin>>
  /\ UNCHANGED <<procVars, bufVars, workerVars, histVars>>

\* line 83: self.prompt_ready.clear()
send_command_clear ==
  /\ pc = "send_clear"
  /\ prompt_ready' = FALSE
  /\ promptBy' = "none"
  /\ pc' = "send_drain"
  /\ UNCHANGED <<op, wfp, opFailed, ret, lastSend, stopLog, stdin>>
  /\ UNCHANGED <<procVars, output_buffer, workerVars>>
  /\ UNCHANGED <<sinceDrain, atPrompt, pending, drainOk, old, wmark, readFailed>>

\* faulty variant of send_command_drain: the pre-send drain is left out
send_command_drain_skip ==
  /\ pc = "send_drain"
  /\ sinceDrain' = <<>>
  /\ atPrompt' = <<>>
  /\ pc' = "send_write"
  /\ UNCHANGED <<op, wfp, opFailed, ret, lastSend, stopLog, stdin>>
  /\ UNCHANGED <<procVars, bufVars, workerVars, pending, drainOk, old>>
  /\ UNCHANGED markVars

\* line 86: self.get_output(), the pre-send drain
send_command_drain ==
  /\ pc = "send_drain"
  /\ DoDrain
  /\ sinceDrain' = <<>>
  /\ atPrompt' = <<>>
  /\ pc' = "send_write"
  /\ UNCHANGED <<op, wfp, opFailed, ret, lastSend, stopLog, stdin>>
  /\ UNCHANGED <<procVars, prompt_ready, workerVars, markVars>>

\* lines 90-91: write and flush reach the child's stdin
send_command_write ==
  /\ pc = "send_write"
  /\ process \in alive
  /\ stdin' = stdin \cup {<<process, Cmd(op)>>}
  /\ pc' = IF wfp THEN "send_wait" ELSE "send_final"
  /\ stopLog' = IF op = "stop" THEN Append(stopLog, "exit") ELSE stopLog
  /\ UNCHANGED <<op, wfp, opFailed, ret, lastSend>>
  /\ UNCHANGED <<procVars, bufVars, workerVars, histVars>>

\* faulty variant of send_command_write_fail: the error is swallowed and
\* send_command goes on to wait
send_command_write_fail_ignored ==
  /\ pc = "send_write"
  /\ process \notin alive
  /\ pc' = IF wfp THEN "send_wait" ELSE "send_final"
  /\ UNCHANGED <<op, wfp, opFailed, ret, lastSend, stopLog, stdin>>
  /\ UNCHANGED <<procVars, bufVars, workerVars, histVars>>

\* lines 90-93: the child is gone, write or flush raises, send_command
\* raises "Error sending command"
send_command_write_fail ==
  /\ pc = "send_write"
  /\ process \notin alive
  /\ SendRaises("send_failed")
  /\ EndSendMarks
  /\ UNCHANGED <<stopLog, stdin>>
  /\ UNCHANGED <<procVars, bufVars, workerVars>>
  /\ UNCHANGED <<sinceDrain, atPrompt, pending, drainOk, old>>

\* line 97: prompt_ready.wait(timeout) returns True
send_command_wait_prompt ==
  /\ pc = "send_wait"
  /\ prompt_ready
  /\ pc' = "send_final"
  /\ UNCHANGED <<op, wfp, opFailed, ret, lastSend, stopLog, stdin>>
  /\ UNCHANGED <<procVars, bufVars, workerVars, histVars>>

\* line 97: prompt_ready.wait(timeout) returns False
send_command_wait_timeout ==
  /\ pc = "send_wait"
  /\ ~prompt_ready
  /\ pc' = "send_tdrain"
  /\ UNCHANGED <<op, wfp, opFailed, ret, lastSend, stopLog, stdin>>
  /\ UNCHANGED <<procVars, bufVars, workerVars, histVars>>

\* faulty variant of send_command_timeout: the timeout raises
send_command_timeout_raises ==
  /\ pc = "send_tdrain"
  /\ SendRaises("timeout")
  /\ UNCHANGED <<stopLog, stdin>>
  /\ UNCHANGED <<procVars, bufVars, workerVars, histVars>>

\* lines 99-100: drain and return the output with the timeout warning
send_command_timeout ==
  /\ pc = "send_tdrain"
  /\ DoDrain
  /\ SendReturns("timeout", get_output(output_buffer), TRUE)
  /\ sinceDrain' = <<>>
  /\ atPrompt' = <<>>
  /\ EndSendMarks
  /\ UNCHANGED <<stopLog, stdin>>
  /\ UNCHANGED <<procVars, prompt_ready, workerVars>>

\* lines 103-105: the prompt was seen, or time.sleep(0.5) is over:
\* return self.get_output()
send_command_return ==
  /\ pc = "send_final"
  /\ DoDrain
  /\ SendReturns("ok", get_output(output_buffer), FALSE)
  /\ sinceDrain' = <<>>
  /\ atPrompt' = <<>>
  /\ EndSendMarks
  /\ UNCHANGED <<stopLog, stdin>>
  /\ UNCHANGED <<procVars, prompt_ready, workerVars>>

(***************************************************************************)
(* start_gowin                                                             *)
(***************************************************************************)
\* faulty variant of start_gowin_already: no is_running check, a second child
\* is spawned
start_gowin_already_respawn ==
  /\ pc = "idle"
  /\ is_running
  /\ nproc < MaxProcs
  /\ nproc' = nproc + 1
  /\ process' = nproc + 1
  /\ alive' = alive \cup {nproc + 1}
  /\ pc' = "start_clear"
  /\ op' = "start"
  /\ ret' = NoRet
  /\ Fresh
  /\ old' = Len(output_buffer)
  /\ UNCHANGED <<wfp, pipe, emitted>>
  /\ UNCHANGED <<bufVars, workerVars, sinceDrain, atPrompt, pending, drainOk>>
  /\ UNCHANGED markVars

\* lines 123-124: already running
start_gowin_already ==
  /\ pc = "idle"
  /\ is_running
  /\ Returns("start", "already_running", FALSE, FALSE)
  /\ Fresh
  /\ UNCHANGED <<procVars, bufVars, workerVars, histVars>>

\* lines 123, 132-141: Popen succeeds
start_gowin_popen ==
  /\ pc = "idle"
  /\ ~is_running
  /\ nproc < MaxProcs
  /\ nproc' = nproc + 1
  /\ process' = nproc + 1
  /\ alive' = alive \cup {nproc + 1}
  /\ pc' = "start_clear"
  /\ op' = "start"
  /\ ret' = NoRet
  /\ Fresh
  /\ old' = Len(output_buffer)
  /\ UNCHANGED <<wfp, pipe, emitted>>
  /\ UNCHANGED <<bufVars, workerVars, sinceDrain, atPrompt, pending, drainOk>>
  /\ UNCHANGED markVars

\* faulty variant of start_gowin_popen_fail: the handle is not reset to None
start_gowin_popen_fail_keep ==
  /\ pc = "idle"
  /\ ~is_running
  /\ Returns("start", "spawn_error", FALSE, TRUE)
  /\ Fresh
  /\ UNCHANGED <<procVars, bufVars, workerVars, histVars>>

\* lines 123, 142-144: Popen raises
start_gowin_popen_fail ==
  /\ pc = "idle"
  /\ ~is_running
  /\ process' = NoProc
  /\ Returns("start", "spawn_error", FALSE, TRUE)
  /\ Fresh
  /\ UNCHANGED <<nproc, alive, pipe, emitted>>
  /\ UNCHANGED <<bufVars, workerVars, histVars>>

\* line 147: gowin.prompt_ready.clear()
start_gowin_clear ==
  /\ pc = "start_clear"
  /\ prompt_ready' = FALSE
  /\ promptBy' = "none"
  /\ pc' = "start_thread"
  /\ UNCHANGED <<op, wfp, opFailed, ret, lastSend, stopLog, stdin>>
  /\ UNCHANGED <<procVars, output_buffer, workerVars>>
  /\ UNCHANGED <<sinceDrain, atPrompt, pending, drainOk, old, wmark, readFailed>>

\* lines 148-157 (and 35): the reader thread starts, its buf empty; the wait
\* for the first prompt then ends, by the prompt or by its timeout and the
\* sleep, and either way send_command is called next
start_gowin_thread ==
  /\ pc = "start_thread"
  /\ wpc' = [wpc EXCEPT ![process] = "cond"]
  /\ wbuf' = [wbuf EXCEPT ![process] = <<>>]
  /\ pc' = "send_check"
  /\ wfp' = TRUE
  /\ UNCHANGED <<op, opFailed, ret, lastSend, stopLog, stdin>>
  /\ UNCHANGED <<wpid, procVars, bufVars, histVars>>

(***************************************************************************)
(* stop_gowin                                                              *)
(***************************************************************************)
\* lines 171-172: not running
stop_gowin_not_running ==
  /\ pc = "idle"
  /\ ~is_running
  /\ Returns("stop", "not_running", FALSE, FALSE)
  /\ Fresh
  /\ UNCHANGED <<procVars, bufVars, workerVars, histVars>>

\* lines 171, 176: running; call send_command("exit", wait_for_prompt=False)
stop_gowin_begin ==
  /\ pc = "idle"
  /\ is_running
  /\ pc' = "send_check"
  /\ op' = "stop"
  /\ wfp' = FALSE
  /\ ret' = NoRet
  /\ Fresh
  /\ UNCHANGED <<procVars, bufVars, workerVars, histVars>>

\* lines 178 and 182: process.wait(timeout=2) returns, the child has exited
stop_gowin_wait_exited ==
  /\ pc \in {"stop_wait1", "stop_wait2"}
  /\ process \notin alive
  /\ pc' = "stop_fin1"
  /\ UNCHANGED <<op, wfp, opFailed, ret, lastSend, stopLog, stdin>>
  /\ UNCHANGED <<procVars, bufVars, workerVars, histVars>>

\* faulty variant of stop_gowin_wait1_timeout: the first timeout goes
\* straight to kill()
stop_gowin_wait1_timeout_kill ==
  /\ pc = "stop_wait1"
  /\ process \in alive
  /\ stopLog' = Append(stopLog, "timeout1")
  /\ pc' = "stop_kill"
  /\ UNCHANGED <<op, wfp, opFailed, ret, lastSend, stdin>>
  /\ UNCHANGED <<procVars, bufVars, workerVars, histVars>>

\* lines 178-179: the first wait raises TimeoutExpired
stop_gowin_wait1_timeout ==
  /\ pc = "stop_wait1"
  /\ process \in alive
  /\ stopLog' = Append(stopLog, "timeout1")
  /\ pc' = "stop_term"
  /\ UNCHANGED <<op, wfp, opFailed, ret, lastSend, stdin>>
  /\ UNCHANGED <<procVars, bufVars, workerVars, histVars>>

\* line 180: process.terminate()
stop_gowin_terminate ==
  /\ pc = "stop_term"
  /\ stopLog' = Append(stopLog, "terminate")
  /\ pc' = "stop_wait2"
  /\ UNCHANGED <<op, wfp, opFailed, ret, lastSend, stdin>>
  /\ UNCHANGED <<procVars, bufVars, workerVars, histVars>>

\* lines 180, 185: process.terminate() raises
stop_gowin_terminate_fail ==
  /\ pc = "stop_term"
  /\ stopLog' = Append(stopLog, "fail")
  /\ opFailed' = TRUE
  /\ pc' = "stop_except"
  /\ UNCHANGED <<op, wfp, ret, lastSend, stdin>>
  /\ UNCHANGED <<procVars, bufVars, workerVars, histVars>>

\* lines 182-183: the second wait raises TimeoutExpired
stop_gowin_wait2_timeout ==
  /\ pc = "stop_wait2"
  /\ process \in alive
  /\ stopLog' = Append(stopLog, "timeout2")
  /\ pc' = "stop_kill"
  /\ UNCHANGED <<op, wfp, opFailed, ret, lastSend, stdin>>
  /\ UNCHANGED <<procVars, bufVars, workerVars, histVars>>

\* process.kill(): the child, if it has not exited yet, is killed at once
Killed(left) ==
  IF process \in alive
    THEN Exits(process, left)
    ELSE left = <<>> /\ UNCHANGED <<alive, pipe, emitted>>

\* line 184: process.kill()
stop_gowin_kill(left) ==
  /\ pc = "stop_kill"
  /\ Killed(left)
  /\ stopLog' = Append(stopLog, "kill")
  /\ pc' = "stop_fin1"
  /\ UNCHANGED <<op, wfp, opFailed, ret, lastSend, stdin>>
  /\ UNCHANGED <<process, nproc>>
  /\ UNCHANGED <<bufVars, workerVars, histVars>>

\* lines 184-185: process.kill() raises
stop_gowin_kill_fail ==
  /\ pc = "stop_kill"
  /\ stopLog' = Append(stopLog, "fail")
  /\ opFailed' = TRUE
  /\ pc' = "stop_except"
  /\ UNCHANGED <<op, wfp, ret, lastSend, stdin>>
  /\ UNCHANGED <<procVars, bufVars, workerVars, histVars>>

\* lines 185-187: except Exception: process.kill()
stop_gowin_except_kill(left) ==
  /\ pc = "stop_except"
  /\ Killed(left)
  /\ stopLog' = Append(stopLog, "kill")
  /\ pc' = "stop_fin1"
  /\ UNCHANGED <<op, wfp, opFailed, ret, lastSend, stdin>>
  /\ UNCHANGED <<process, nproc>>
  /\ UNCHANGED <<bufVars, workerVars, histVars>>

\* lines 187-189: that kill() raises too: pass
stop_gowin_except_pass ==
  /\ pc = "stop_except"
  /\ pc' = "stop_fin1"
  /\ UNCHANGED <<op, wfp, opFailed, ret, lastSend, stopLog, stdin>>
  /\ UNCHANGED <<procVars, bufVars, workerVars, histVars>>

\* line 191: gowin.process = None
stop_gowin_finally_handle ==
  /\ pc = "stop_fin1"
  /\ process' = NoProc
  /\ pc' = "stop_fin2"
  /\ UNCHANGED <<op, wfp, opFailed, ret, lastSend, stopLog, stdin>>
  /\ UNCHANGED <<nproc, alive, pipe, emitted>>
  /\ UNCHANGED <<bufVars, workerVars, histVars>>

\* line 192: gowin.prompt_ready.clear()
stop_gowin_finally_clear ==
  /\ pc = "stop_fin2"
  /\ prompt_ready' = FALSE
  /\ promptBy' = "none"
  /\ pc' = "stop_ret"
  /\ UNCHANGED <<op, wfp, opFailed, ret, lastSend, stopLog, stdin>>
  /\ UNCHANGED <<procVars, output_buffer, workerVars>>
  /\ UNCHANGED <<sinceDrain, atPrompt, pending, drainOk, old, wmark, readFailed>>

\* line 194: return "Gowin process stopped."
stop_gowin_return ==
  /\ pc = "stop_ret"
  /\ Returns("stop", "stopped", FALSE, opFailed)
  /\ UNCHANGED <<opFailed, lastSend, stopLog, stdin>>
  /\ UNCHANGED <<procVars, bufVars, workerVars, histVars>>

(***************************************************************************)
(* The system.                                                             *)
(***************************************************************************)
Child == \E p \in Pids, left \in Leftovers : ChildExit(p, left)

Worker ==
  \E w \in Pids :
    \/ read_output_cond1(w)
    \/ read_output_cond2(w)
    \/ read_output_load(w)
    \/ \E ch \in Chars : read_output_char(w, ch)
    \/ read_output_rest(w)
    \/ read_output_set(w)
    \/ read_output_eof(w)
    \/ read_output_fail(w)
    \/ read_output_leftover(w)
    \/ read_output_except(w)

send_command ==
  \/ send_command_not_running
  \/ send_command_running
  \/ send_command_clear
  \/ send_command_drain
  \/ send_command_write
  \/ send_command_write_fail
  \/ send_command_wait_prompt
  \/ send_command_wait_timeout
  \/ send_command_timeout
  \/ send_command_return

start_gowin ==
  \/ start_gowin_already
  \/ start_gowin_popen
  \/ start_gowin_popen_fail
  \/ start_gowin_clear
  \/ start_gowin_thread

stop_gowin ==
  \/ stop_gowin_not_running
  \/ stop_gowin_begin
  \/ stop_gowin_wait_exited
  \/ stop_gowin_wait1_timeout
  \/ stop_gowin_terminate
  \/ stop_gowin_terminate_fail
  \/ stop_gowin_wait2_timeout
  \/ \E left \in Leftovers : stop_gowin_kill(left)
  \/ stop_gowin_kill_fail
  \/ \E left \in Leftovers : stop_gowin_except_kill(left)
  \/ stop_gowin_except_pass
  \/ stop_gowin_finally_handle
  \/ stop_gowin_finally_clear
  \/ stop_gowin_return

Next == Child \/ Worker \/ tool_send \/ send_command \/ start_gowin \/ stop_gowin

Spec == Init /\ [][Next]_vars

(***************************************************************************)
(* The scanner alone: the worker of a started session reads a stream of up *)
(* to MaxScan characters from its live child while the caller is idle.     *)
(***************************************************************************)
\* the session after a start_gowin whose priming send_command timed out with
\* nothing read yet
ScanInit ==
  /\ process = 1
  /\ nproc = 1
  /\ alive = {1}
  /\ pipe = [p \in Pids |-> <<>>]
  /\ emitted = 0
  /\ stdin = {<<1, Cmd("start")>>}
  /\ output_buffer = <<>>
  /\ prompt_ready = FALSE
  /\ wpc = [w \in Pids |-> IF w = 1 THEN "cond" ELSE "none"]
  /\ wbuf = [w \in Pids |-> <<>>]
  /\ wpid = [w \in Pids |-> NoProc]
  /\ pc = "idle"
  /\ op = "none"
  /\ wfp = FALSE
  /\ opFailed = FALSE
  /\ ret = [op |-> "start", status |-> "started", adv |-> TRUE, failed |-> FALSE]
  /\ lastSend = [kind |-> "timeout", text |-> <<>>, wfp |-> TRUE,
                 since |-> <<>>, upto |-> <<>>]
  /\ stopLog = <<>>
  /\ sinceDrain = <<>>
  /\ atPrompt = <<>>
  /\ pending = <<>>
  /\ drainOk = TRUE
  /\ old = 0
  /\ wmark = [w \in Pids |-> "none"]
  /\ promptBy = "none"
  /\ readFailed = {}

\* line 37: read(1) returns the next character of the stream
scan_char(w, ch) ==
  /\ wpc[w] = "block"
  /\ wpid[w] \in alive
  /\ emitted < MaxScan
  /\ emitted' = emitted + 1
  /\ ReadChar(w, ch)
  /\ UNCHANGED <<process, nproc, alive, pipe>>
  /\ UNCHANGED <<prompt_ready, callerVars, atPrompt, drainOk>>
  /\ UNCHANGED <<promptBy, readFailed>>

ScanNext ==
  \/ read_output_cond1(1)
  \/ read_output_cond2(1)
  \/ read_output_load(1)
  \/ \E ch \in Chars : scan_char(1, ch)
  \/ read_output_set(1)

ScanSpec == ScanInit /\ [][ScanNext]_vars

(***************************************************************************)
(* Fair scheduling of the threads: a worker that can take a step that does *)
(* not wait for a live child to write takes it, and the caller thread      *)
(* finishes the operation it is in.                                        *)
(***************************************************************************)
CallerRun == pc # "idle" /\ (send_command \/ start_gowin \/ stop_gowin)

WorkerRun(w) ==
  \/ read_output_cond1(w)
  \/ read_output_cond2(w)
  \/ read_output_load(w)
  \/ read_output_rest(w)
  \/ read_output_set(w)
  \/ read_output_eof(w)
  \/ read_output_leftover(w)
  \/ read_output_except(w)

LiveSpec ==
  /\ Spec
  /\ WF_vars(CallerRun)
  /\ \A w \in Pids : WF_vars(WorkerRun(w))

(***************************************************************************)
(* Properties.                                                             *)
(***************************************************************************)
\* the caller thread takes a step
CallerStep == callerVars' # callerVars

\* C1, as stated: a send_command that returns without the timeout warning
\* returns exactly the characters appended between its pre-send drain and
\* the prompt detection (wait_for_prompt) or the end of the grace period
C1_ReturnsUpToPrompt ==
  lastSend.kind = "ok" =>
    lastSend.text = IF lastSend.wfp THEN lastSend.upto ELSE lastSend.since

\* C1, amended: a send_command that returns without the timeout warning
\* returns exactly the characters appended between its pre-send drain and
\* its final drain, in order
C1_ReturnsSinceDrain ==
  lastSend.kind = "ok" => lastSend.text = lastSend.since

C1_Witness ==
  /\ lastSend.kind = "ok"
  /\ lastSend.wfp
  /\ lastSend.text # <<>>
  /\ lastSend.text = lastSend.upto

\* C2: a send_command whose wait times out does not raise: it drains the
\* buffer and returns what was appended since the pre-send drain, with the
\* warning; neither the expiry nor the return touches the child or the handle
C2_TimeoutReturnsPartial ==
  [][/\ (pc = "send_wait" /\ pc' = "send_tdrain") =>
          UNCHANGED <<process, alive, output_buffer>>
     /\ (pc = "send_tdrain" /\ CallerStep) =>
          /\ lastSend'.kind = "timeout"
          /\ lastSend'.text = sinceDrain
          /\ output_buffer' = <<>>
          /\ UNCHANGED <<process, alive>>
          /\ process' # NoProc
          /\ pc' = "idle"
          /\ ret'.status \in {"ok", "started"}
          /\ ret'.adv
          /\ ~ret'.failed]_vars

C2_Witness ==
  /\ lastSend.kind = "timeout"
  /\ lastSend.text # <<>>
  /\ ret.op = "send"
  /\ is_running

\* C3: a send_command called when is_running is false raises "not running"
\* and touches nothing: no write to a child, prompt_ready not cleared,
\* output_buffer not drained
C3_NotRunningTouchesNothing ==
  [][(pc = "send_check" /\ ~is_running /\ CallerStep) =>
        /\ lastSend'.kind = "not_running"
        /\ opFailed'
        /\ UNCHANGED <<stdin, procVars, bufVars, pending, drainOk>>]_vars

C3_Witness ==
  /\ ret.op = "send"
  /\ ret.status = "not_running"
  /\ prompt_ready
  /\ output_buffer # <<>>

\* C4: start_gowin called while running returns "already running" and
\* changes nothing: no child and no worker is started, the handle, the
\* buffer and prompt_ready stay as they are; when it is the second start in
\* a row, exactly one child is alive
C4_StartWhileRunning ==
  [][(/\ pc = "idle"
      /\ is_running
      /\ CallerStep
      /\ (op' = "start" \/ ret'.op = "start")) =>
        /\ ret'.status = "already_running"
        /\ pc' = "idle"
        /\ UNCHANGED <<procVars, bufVars, workerVars>>
        /\ (nproc' = 1 => alive' = {process'})]_vars

C4_Witness ==
  /\ ret.op = "start"
  /\ ret.status = "already_running"
  /\ nproc = 1
  /\ alive = {process}
  /\ wpc[1] # "none"

\* C5: stop_gowin escalates in order: "exit" sent without waiting for the
\* prompt, a wait, terminate() only after the first wait timed out, kill()
\* only after the wait that follows terminate() timed out or after a step
\* raised; once stop_gowin has returned, is_running is false
C5_StopEscalation ==
  /\ op = "stop" => ~wfp
  /\ \A i \in 1..Len(stopLog) :
       /\ stopLog[i] = "exit" => i = 1
       /\ stopLog[i] = "timeout1" => (i = 2 /\ stopLog[1] = "exit")
       /\ stopLog[i] = "terminate" => (i > 1 /\ stopLog[i - 1] = "timeout1")
       /\ stopLog[i] = "timeout2" => (i > 1 /\ stopLog[i - 1] = "terminate")
       /\ stopLog[i] = "kill" =>
            (opFailed \/ (i > 1 /\ stopLog[i - 1] = "timeout2"))
  /\ (pc = "idle" /\ ret.op = "stop") => ~is_running

C5_Witness ==
  /\ pc = "idle"
  /\ ret.op = "stop"
  /\ ret.status = "stopped"
  /\ ~ret.failed
  /\ stopLog = <<"exit", "timeout1", "terminate", "timeout2", "kill">>

\* C6: when stop_gowin returns "stopped", the handle is None and
\* prompt_ready is unset
C6_StopLeavesCleared ==
  [][(pc = "stop_ret" /\ CallerStep) =>
        (process' = NoProc /\ ~prompt_ready')]_vars

\* C7: every character appended to output_buffer is returned by exactly one
\* get_output, in the order of the appends: each get_output returns all that
\* was appended and not yet returned, and leaves nothing behind; a drain
\* that follows a drain with no append in between returns the empty string
C7_DrainExactlyOnce ==
  /\ drainOk
  /\ get_output(output_buffer) = pending
  /\ (lastSend.kind \in {"ok", "timeout"} /\ lastSend.since = <<>>) =>
       lastSend.text = <<>>

C7_Witness ==
  /\ pc = "idle"
  /\ lastSend.kind \in {"ok", "timeout"}
  /\ lastSend.text # <<>>
  /\ output_buffer # <<>>

\* C8: when the start_gowin that spawns a child has done its reset (line
\* 147), no chunk appended before the spawn is left in output_buffer
C8_StartResets ==
  [][(pc = "start_clear" /\ CallerStep) => old' = 0]_vars

\* C9: an operation in which a step raised returns a status that tells so
C9_NoSilentFailure ==
  (pc = "idle" /\ ret.failed) =>
    ret.status \in {"not_running", "send_failed", "spawn_error", "started_error"}

\* C10: when the write to the child's stdin fails, send_command raises
\* "send failed" and the operation never again waits for the prompt, sleeps
\* or drains
C10_WriteFailure ==
  /\ [](lastSend.kind = "send_failed" =>
          pc \in {"idle", "stop_except", "stop_fin1", "stop_fin2", "stop_ret"})
  /\ [][(pc = "send_write" /\ process \notin alive /\ CallerStep) =>
          /\ lastSend'.kind = "send_failed"
          /\ opFailed'
          /\ op # "stop" => ret'.status \in {"send_failed", "started_error"}
          /\ UNCHANGED <<stdin, procVars, bufVars, pending, drainOk>>]_vars

C10_Witness ==
  /\ lastSend.kind = "send_failed"
  /\ ret.op = "send"
  /\ ret.status = "send_failed"

\* C11: a start_gowin whose Popen succeeded returns a "started" status
\* whatever becomes of the wait for the first prompt and of the priming
\* send_command, and its worker has been started; a start_gowin whose Popen
\* raised returns the error status, leaves the handle None and starts no
\* worker
C11_StartReportsStarted ==
  [][/\ (op = "start" /\ pc' = "idle") =>
          /\ ret'.op = "start"
          /\ ret'.status \in {"started", "started_error"}
          /\ process' # NoProc
          /\ wpc'[process'] # "none"
     /\ (pc = "idle" /\ ~is_running /\ CallerStep /\ ret'.op = "start") =>
          /\ ret'.status = "spawn_error"
          /\ process' = NoProc
          /\ UNCHANGED <<workerVars, nproc, alive>>]_vars

C11_Witness ==
  /\ pc = "idle"
  /\ ret.op = "start"
  /\ ret.status = "started_error"
  /\ lastSend.kind = "send_failed"
  /\ process # NoProc
  /\ wpc[process] # "none"

\* C12: no two workers are blocked in read(1) on the stdout of the same
\* Popen object
C12_OneWorkerPerStream ==
  \A v, w \in Pids :
    (v # w /\ wpc[v] = "block" /\ wpc[w] = "block") => wpid[v] # wpid[w]

\* C13: the prompt_ready.wait of a send_command returns True only on a set()
\* for a marker that was read after this send_command wrote its command
C13_WokenByOwnPrompt ==
  [][(pc = "send_wait" /\ pc' = "send_final") => promptBy = "written"]_vars

\* C14: prompt_ready goes from unset to set only in the step of a worker at
\* line 60, which no caller step is; a worker that has read a character goes
\* on to line 60 exactly when the fragment it then holds contains the marker,
\* and the read itself (a flushed line included) leaves prompt_ready as it is
C14_OnlyScannerSignals ==
  [][/\ (~prompt_ready /\ prompt_ready') =>
          /\ \E w \in Pids : wpc[w] = "set" /\ wpc'[w] = "cond"
          /\ UNCHANGED callerVars
     /\ CallerStep => (prompt_ready' => prompt_ready)
     /\ \A w \in Pids :
          /\ (wpc[w] = "set" /\ wpc'[w] # "set") => prompt_ready'
          /\ (wpc[w] = "block" /\ wpc'[w] \in {"cond", "set"}) =>
               LET grew == Len(output_buffer') = Len(output_buffer) + 1
                   b == IF grew
                          THEN output_buffer'[Len(output_buffer')] \o wbuf'[w]
                          ELSE wbuf'[w]
               IN /\ UNCHANGED prompt_ready
                  /\ (wpc'[w] = "set") <=> HasMarker(b)
                  /\ b[Len(b)] = NL => (grew /\ wpc'[w] = "cond")]_vars

C14_Witness ==
  /\ prompt_ready
  /\ promptBy # "none"
  /\ pending # <<>>
  /\ HasMarker(pending)

\* C15: when the fragment, with the character just read, contains the marker,
\* the worker appends exactly one chunk, the fragment up to and including the
\* first marker, keeps what follows the marker as its fragment, and calls
\* prompt_ready.set() next; so a fragment never holds a marker between reads
C15_SplitAtMarker ==
  /\ [](\A w \in Pids : ~HasMarker(wbuf[w]))
  /\ [][\A w \in Pids :
          /\ (wpc[w] = "set" /\ wpc'[w] # "set") =>
               (prompt_ready' /\ UNCHANGED output_buffer)
          /\ (wpc[w] = "block" /\ wpc'[w] \in {"cond", "set"}) =>
               LET n == Len(output_buffer' ) - Len(output_buffer)
                   c == output_buffer'[Len(output_buffer')]
                   b == IF n > 0 THEN c \o wbuf'[w] ELSE wbuf'[w]
                   idx == IndexOfMarker(b) + 1
               IN /\ Len(b) = Len(wbuf[w]) + 1
                  /\ SubSeq(b, 1, Len(wbuf[w])) = wbuf[w]
                  /\ HasMarker(b) =>
                       /\ n = 1
                       /\ SubSeq(output_buffer', 1, Len(output_buffer)) =
                            output_buffer
                       /\ c = SubSeq(b, 1, idx)
                       /\ wbuf'[w] = SubSeq(b, idx + 1, Len(b))
                       /\ wpc'[w] = "set"]_vars

C15_Witness ==
  /\ prompt_ready
  /\ Len(output_buffer) = 2
  /\ output_buffer[1] = <<" ", NL>>
  /\ output_buffer[2] = <<"%", " ">>

\* stop_gowin has returned "stopped" and every child has exited
Stopped ==
  /\ pc = "idle"
  /\ ret.op = "stop"
  /\ ret.status = "stopped"
  /\ alive = {}

\* C16: a worker that is still running when stop_gowin has returned, its
\* child gone, eventually returns from read_output
C16_WorkerTerminates ==
  \A w \in Pids :
    (Stopped /\ wpc[w] \notin {"none", "done"}) ~> (wpc[w] = "done")

\* C17: once a read(1) on a child's stdout has raised, no worker appends
\* anything more that it reads from that stdout
C17_NoChunkAfterReadError ==
  [][\A w \in Pids :
       (wpc[w] = "block" /\ wpid[w] \in readFailed /\ wpc'[w] # "block") =>
         UNCHANGED output_buffer]_vars

\* C18: a worker that returns from read_output without a read error has read
\* all that its child wrote: nothing is left in the pipe
C18_NoOutputLost ==
  [][\A w \in Pids :
       (wpc[w] \in {"leftover", "block"} /\ wpc'[w] = "done") =>
         pipe'[w] = <<>>]_vars

\* C19: a worker enters its except clause, where it appends the diagnostic
\* chunk, only from a read(1) that raised
C19_DiagnosticOnlyOnReadError ==
  [][\A w \in Pids :
       (wpc[w] # "except" /\ wpc'[w] = "except") => wpc[w] = "block"]_vars

\* C20: a worker comes to line 60 only by the step that appends the chunk
\* ending in the marker, and prompt_ready is set only by a worker at line 60,
\* in a step that appends nothing; so while a send_command is past its
\* pre-send drain, a marker read since that drain is in what has been appended
\* since, whether its set() is still to come or has set prompt_ready, and the
\* send_command that such a set() woke returns text containing the marker
C20_AppendBeforeSignal ==
  /\ [](Tracking =>
          /\ \A w \in Pids :
               (wpc[w] = "set" /\ wmark[w] \in {"drained", "written"}) =>
                 HasMarker(sinceDrain)
          /\ (prompt_ready /\ promptBy \in {"drained", "written"}) =>
                 (HasMarker(sinceDrain) /\ HasMarker(get_output(output_buffer))))
  /\ [][/\ \A w \in Pids :
             (wpc[w] # "set" /\ wpc'[w] = "set") =>
               LET c == output_buffer'[Len(output_buffer')]
               IN /\ Len(output_buffer') = Len(output_buffer) + 1
                  /\ Len(c) >= 2
                  /\ c[Len(c) - 1] = "%"
                  /\ c[Len(c)] = " "
                  /\ UNCHANGED prompt_ready
        /\ (~prompt_ready /\ prompt_ready') =>
             /\ \E w \in Pids : wpc[w] = "set"
             /\ UNCHANGED output_buffer
        /\ (/\ pc = "send_final"
            /\ wfp
            /\ promptBy \in {"drained", "written"}
            /\ CallerStep) =>
             (lastSend'.kind = "ok" /\ HasMarker(lastSend'.text))]_vars

C20_Witness ==
  /\ pc = "send_final"
  /\ wfp
  /\ prompt_ready
  /\ promptBy = "written"
  /\ HasMarker(get_output(output_buffer))

====
